---- MODULE Spec2Model ----
(***************************************************************************)
(* Model of src/components/EnemyGhost.jsx (component GhostFollow).         *)
(*                                                                         *)
(* The component is a React function component.  Its useState values       *)
(* (curr, hp, dead, vanishing) are read by the closures of the last        *)
(* committed render; a setState call only queues an update, which the next *)
(* render commits.  The model keeps the committed values and the pending   *)
(* updates apart, so that a handler running before the next render reads   *)
(* the values of the last one.                                             *)
(*                                                                         *)
(* Units: time in milliseconds, lengths in tenths of a metre, positions on *)
(* the x axis (z = 0 for the ghost and the player).                        *)
(***************************************************************************)
EXTENDS Integers, Sequences, FiniteSets, TLC

\* ---- program constants (EnemyGhost.jsx lines 10-15, 17, 63, 109, 139)
WALK_SPEED == 4
ATTACK_RANGE == 1
ATTACK_COOLDOWN == 1000
MAX_HP == 10
VANISH_DURATION == 2200
DEFAULT_DAMAGE == 10
RETREAT_TENTHS == 3
SpawnX == 0

\* ---- bounds of the model
MaxHits == 2
MaxTime == 600

\* ---- input sets
NoDamage == 0 - 1
NoTime == 0 - 1
Damages == {5, 10}
NoTag == "undefined"
Tags == {"magic", "enemy", NoTag}
\* The bodies that touch the sensor, as <<userData.type, userData.damage>>
Bodies ==
    ({"magic"} \X (Damages \cup {NoDamage})) \cup {<<"enemy", 10>>, <<NoTag, NoDamage>>}
PlayerXs == {30}
DtChoices == {500}
TimeSteps == {600, 1200}
Clips == {"Idle", "Armature|Action_Walk", "Armature|Action_Atack"}
NoClip == "none"

VARIABLES
    curr,          \* useState("Idle"), committed value
    hp,            \* useState(MAX_HP), committed value
    dead,          \* useState(false), committed value
    vanishing,     \* useState(false), committed value
    hpQ,           \* pending setHp updates, in call order
    pendVan,       \* a setVanishing(true) is pending
    pendDead,      \* a setDead(true) is pending
    pendCurr,      \* the clip of the last pending setCurr, or NoClip
    raining,       \* the raining prop of the last render
    bodyEnabled,   \* the rigid body takes part in the physics step
    g,             \* rigid.current.translation().x
    vanishPos,     \* vanishPosRef.current.x
    lastAttack,    \* lastAttack.current
    timers,        \* deadlines of the pending setTimeout callbacks
    now,           \* the monotonic clock
    kills,         \* number of addKill() calls so far
    onDeadCalls,   \* number of onDead() calls so far
    scheduled,     \* number of setTimeout calls so far
    hits,          \* number of intersection events delivered so far
    vanishAt,      \* clock value of the first startVanish that passed its guard
    deadAt,        \* clock value of the first setDead(true)
    captures,      \* number of vanishPosRef.current.set(...) calls so far
    mounted,       \* the component is mounted
    out            \* what the last step did

stateVars == <<curr, hp, dead, vanishing, hpQ, pendVan, pendDead, pendCurr>>
bodyVars == <<bodyEnabled, g, vanishPos, lastAttack>>
histVars == <<kills, onDeadCalls, scheduled, hits, vanishAt, deadAt, captures>>
vars == <<curr, hp, dead, vanishing, hpQ, pendVan, pendDead, pendCurr, raining,
          bodyEnabled, g, vanishPos, lastAttack, timers, now,
          kills, onDeadCalls, scheduled, hits, vanishAt, deadAt, captures,
          mounted, out>>

\* What a step did: op is "tick" for a frame callback, "hit" for an
\* intersection event, "env" for any other step.  For a tick: its inputs px
\* and dt, the branch it took ("walk", "attack", or "none" when it returned
\* early), move: a kinematic translation was commanded, target: that
\* translation, anim: a clip was started, req: the clip play() was called
\* with.  For a hit: the tag and the damage of the other body.
Quiet(op) == [op |-> op, move |-> FALSE, anim |-> FALSE, branch |-> "none",
              px |-> 0, dt |-> 0, target |-> 0, req |-> NoClip,
              tag |-> "", damage |-> 0]

\* The component has state updates queued that no render has committed yet.
FiberHasWork == hpQ # <<>> \/ pendVan \/ pendDead \/ pendCurr # NoClip

\* rigid.current: the RigidBody element is rendered until dead is committed.
rigidCurrent == ~dead

\* The side effects of the handlers, as a record the handlers thread through.
Eff == [kills |-> kills, pendVan |-> pendVan, vanishPos |-> vanishPos,
        bodyEnabled |-> bodyEnabled, timers |-> timers, scheduled |-> scheduled,
        vanishAt |-> vanishAt, captures |-> captures]

Init ==
    /\ curr = "Idle"
    /\ hp = MAX_HP
    /\ dead = FALSE
    /\ vanishing = FALSE
    /\ hpQ = <<>>
    /\ pendVan = FALSE
    /\ pendDead = FALSE
    /\ pendCurr = NoClip
    /\ raining = TRUE
    /\ bodyEnabled = TRUE
    /\ g = SpawnX
    /\ vanishPos = SpawnX
    /\ lastAttack = 0
    /\ timers = <<>>
    /\ now = 0
    /\ kills = 0
    /\ onDeadCalls = 0
    /\ scheduled = 0
    /\ hits = 0
    /\ vanishAt = NoTime
    /\ deadAt = NoTime
    /\ captures = 0
    /\ mounted = TRUE
    /\ out = Quiet("env")

\* startVanish without setVanishing(true).
startVanish_NoFlag(e, v) ==
    IF v THEN e
    ELSE [e EXCEPT !.vanishPos = IF rigidCurrent THEN g ELSE @,
                   !.captures = IF rigidCurrent THEN @ + 1 ELSE @,
                   !.bodyEnabled = IF rigidCurrent THEN FALSE ELSE @,
                   !.timers = Append(@, now + VANISH_DURATION),
                   !.scheduled = @ + 1,
                   !.vanishAt = IF @ = NoTime THEN now ELSE @]

\* startVanish without rigid.current.setEnabled(false).
startVanish_NoDisable(e, v) ==
    IF v THEN e
    ELSE [e EXCEPT !.pendVan = TRUE,
                   !.vanishPos = IF rigidCurrent THEN g ELSE @,
                   !.captures = IF rigidCurrent THEN @ + 1 ELSE @,
                   !.timers = Append(@, now + VANISH_DURATION),
                   !.scheduled = @ + 1,
                   !.vanishAt = IF @ = NoTime THEN now ELSE @]

\* startVanish without the setTimeout.
startVanish_NoTimer(e, v) ==
    IF v THEN e
    ELSE [e EXCEPT !.pendVan = TRUE,
                   !.vanishPos = IF rigidCurrent THEN g ELSE @,
                   !.captures = IF rigidCurrent THEN @ + 1 ELSE @,
                   !.bodyEnabled = IF rigidCurrent THEN FALSE ELSE @,
                   !.vanishAt = IF @ = NoTime THEN now ELSE @]

\* startVanish without its first line, if (vanishing) return.
startVanish_NoGuard(e, v) ==
    [e EXCEPT !.pendVan = TRUE,
              !.vanishPos = IF rigidCurrent THEN g ELSE @,
              !.captures = IF rigidCurrent THEN @ + 1 ELSE @,
              !.bodyEnabled = IF rigidCurrent THEN FALSE ELSE @,
              !.timers = Append(@, now + VANISH_DURATION),
              !.scheduled = @ + 1,
              !.vanishAt = IF @ = NoTime THEN now ELSE @]

\* const startVanish = () => { ... }; v is the vanishing the closure read.
startVanish(e, v) ==
    IF v THEN e
    ELSE [e EXCEPT !.pendVan = TRUE,
                   !.vanishPos = IF rigidCurrent THEN g ELSE @,
                   !.captures = IF rigidCurrent THEN @ + 1 ELSE @,
                   !.bodyEnabled = IF rigidCurrent THEN FALSE ELSE @,
                   !.timers = Append(@, now + VANISH_DURATION),
                   !.scheduled = @ + 1,
                   !.vanishAt = IF @ = NoTime THEN now ELSE @]

\* The updater with the death test next < 0.
hitUpdater_Strict(e, prev, damage, v) ==
    LET next == prev - damage IN
    [hp |-> next,
     e |-> IF next < 0
           THEN startVanish([e EXCEPT !.kills = @ + 1], v)
           ELSE e]

\* The updater handleHit passes to setHp: prev is the state it is run on,
\* v the vanishing its closure read.  Result: the new hp and the effects.
hitUpdater(e, prev, damage, v) ==
    LET next == prev - damage IN
    [hp |-> next,
     e |-> IF next <= 0
           THEN startVanish([e EXCEPT !.kills = @ + 1], v)
           ELSE e]

\* The queued updates of hp, run in order by the render.
RECURSIVE runQueue(_, _, _)
runQueue(q, prev, e) ==
    IF q = <<>> THEN [hp |-> prev, e |-> e]
    ELSE LET u == Head(q)
             r == IF u.eager THEN [hp |-> u.val, e |-> e]
                  ELSE hitUpdater(e, prev, u.val, u.v)
         IN runQueue(Tail(q), r.hp, r.e)

\* ---- the frame callback (useFrame)

Abs(x) == IF x < 0 THEN 0 - x ELSE x

\* new V3(dx, 0, 0).normalize().x: a zero vector stays zero.
NormX(dx) == IF dx > 0 THEN 1 ELSE IF dx < 0 THEN 0 - 1 ELSE 0

\* The clips of the loaded model that useAnimations exposes as actions.
hasAction(name) == name \in {"Armature|Action_Walk", "Armature|Action_Atack"}

\* play(name) goes past its first line: it stops the clips, starts name and
\* calls setCurr(name).
playStarts(name) == ~(curr = name \/ ~hasAction(name))

\* The frame callback without its checks of dead and rigid.current.
frameReturns_NoDeadCheck(playerAvail) == ~playerAvail

\* The two early returns of the frame callback.
frameReturns(playerAvail) == dead \/ ~playerAvail \/ ~rigidCurrent

\* Math.hypot(p.x - g.x, p.z - g.z) with p.z = g.z
Dist(px) == Abs(px - g)

\* The walk step not scaled by dt.
WalkTarget_NoDt(px, dt) == g + NormX(px - g) * (WALK_SPEED * 10)

\* next = g + dir * WALK_SPEED * dt, dt in milliseconds
WalkTarget(px, dt) == g + NormX(px - g) * ((WALK_SPEED * dt * 10) \div 1000)

RetreatTarget(px) == g + NormX(g - px) * RETREAT_TENTHS

\* The retreat without the cooldown test.
CooldownOver_Always == now >= lastAttack

CooldownOver == now - lastAttack > ATTACK_COOLDOWN

\* setNextKinematicTranslation(t): the next physics step moves an enabled body.
Moved(t) == IF bodyEnabled THEN t ELSE g

\* dist > ATTACK_RANGE
OutOfRange(px) == Dist(px) > ATTACK_RANGE * 10

Ticked(px, dt) == [Quiet("tick") EXCEPT !.px = px, !.dt = dt]

Tick(px, dt, playerAvail) ==
    /\ mounted
    /\ UNCHANGED <<hp, dead, vanishing, hpQ, pendVan, pendDead, raining,
                   bodyEnabled, vanishPos, timers, now, histVars, mounted>>
    /\ IF frameReturns(playerAvail)
       THEN /\ UNCHANGED <<curr, pendCurr, g, lastAttack>>
            /\ out' = Ticked(px, dt)
       ELSE IF OutOfRange(px)
       THEN /\ g' = Moved(WalkTarget(px, dt))
            /\ pendCurr' = IF playStarts("Armature|Action_Walk")
                           THEN "Armature|Action_Walk" ELSE pendCurr
            /\ UNCHANGED <<curr, lastAttack>>
            /\ out' = [Ticked(px, dt) EXCEPT !.branch = "walk", !.move = TRUE,
                           !.target = WalkTarget(px, dt),
                           !.req = "Armature|Action_Walk",
                           !.anim = playStarts("Armature|Action_Walk")]
       ELSE /\ pendCurr' = IF playStarts("Armature|Action_Atack")
                           THEN "Armature|Action_Atack" ELSE pendCurr
            /\ lastAttack' = IF CooldownOver THEN now ELSE lastAttack
            /\ g' = IF CooldownOver THEN Moved(RetreatTarget(px)) ELSE g
            /\ UNCHANGED curr
            /\ out' = [Ticked(px, dt) EXCEPT !.branch = "attack",
                           !.move = CooldownOver,
                           !.target = IF CooldownOver THEN RetreatTarget(px) ELSE 0,
                           !.req = "Armature|Action_Atack",
                           !.anim = playStarts("Armature|Action_Atack")]

\* ---- damage

SetEffects(e) ==
    /\ kills' = e.kills
    /\ pendVan' = e.pendVan
    /\ vanishPos' = e.vanishPos
    /\ bodyEnabled' = e.bodyEnabled
    /\ timers' = e.timers
    /\ scheduled' = e.scheduled
    /\ vanishAt' = e.vanishAt
    /\ captures' = e.captures

\* handleHit(damage): setHp(updater).  React runs the updater at once when the
\* component has no update queued, and in the next render otherwise.
handleHit(damage) ==
    IF ~FiberHasWork
    THEN LET r == hitUpdater(Eff, hp, damage, vanishing) IN
         /\ hpQ' = <<[eager |-> TRUE, val |-> r.hp, v |-> vanishing]>>
         /\ SetEffects(r.e)
    ELSE /\ hpQ' = Append(hpQ, [eager |-> FALSE, val |-> damage, v |-> vanishing])
         /\ SetEffects(Eff)

\* A handler that takes every intersection for a hit.
isDamaging_Any(tag) == tag \in Tags

\* other.rigidBody.userData?.type === "magic"
isDamaging(tag) == tag = "magic"

\* other.rigidBody.userData?.damage ?? 10
damageOf(damage) == IF damage = NoDamage THEN DEFAULT_DAMAGE ELSE damage

\* onIntersectionEnter of the RigidBody, which is rendered until dead is committed.
OnIntersectionEnter(tag, damage) ==
    /\ mounted
    /\ ~dead
    /\ hits < MaxHits
    /\ hits' = hits + 1
    /\ out' = [Quiet("hit") EXCEPT !.tag = tag, !.damage = damage]
    /\ UNCHANGED <<curr, hp, dead, vanishing, pendDead, pendCurr, raining,
                   g, lastAttack, now, onDeadCalls, deadAt, mounted>>
    /\ IF isDamaging(tag)
       THEN handleHit(damageOf(damage))
       ELSE UNCHANGED <<hpQ, pendVan, bodyEnabled, vanishPos, timers,
                        kills, scheduled, vanishAt, captures>>

\* ---- render and commit

\* A render with the raining prop rain: runs the queued updaters, commits the
\* state, then runs the effect on raining when the prop changed.
RenderWith(rain, op) ==
    LET r == runQueue(hpQ, hp, Eff)
        v1 == vanishing \/ r.e.pendVan
        e1 == [r.e EXCEPT !.pendVan = FALSE]
        e2 == IF rain # raining /\ ~rain THEN startVanish(e1, v1) ELSE e1
    IN /\ hp' = r.hp
       /\ vanishing' = v1
       /\ dead' = (dead \/ pendDead)
       /\ curr' = IF pendCurr # NoClip THEN pendCurr ELSE curr
       /\ hpQ' = <<>>
       /\ pendDead' = FALSE
       /\ pendCurr' = NoClip
       /\ raining' = rain
       /\ SetEffects(e2)
       /\ out' = Quiet(op)
       /\ UNCHANGED <<g, lastAttack, now, onDeadCalls, hits, deadAt, mounted>>

Render == mounted /\ FiberHasWork /\ RenderWith(raining, "env")

SetRaining(rain) == mounted /\ rain # raining /\ RenderWith(rain, "env")

\* ---- the removal timer

\* A timer that may fire at once.
timerDue_Early(deadline) == deadline >= 0

\* setTimeout(f, 2200) runs f no earlier than 2200 ms after the call.
timerDue(deadline) == now >= deadline

TimerFire ==
    /\ timers # <<>>
    /\ timerDue(Head(timers))
    /\ timers' = Tail(timers)
    /\ pendDead' = IF mounted THEN (pendDead \/ ~dead) ELSE pendDead
    /\ onDeadCalls' = onDeadCalls + 1
    /\ deadAt' = IF deadAt = NoTime THEN now ELSE deadAt
    /\ out' = Quiet("env")
    /\ UNCHANGED <<curr, hp, dead, vanishing, hpQ, pendVan, pendCurr, raining,
                   bodyVars, now, kills, scheduled, hits, vanishAt, captures,
                   mounted>>

\* The clock advances once the queued render and the due timers have run.
Advance(d) ==
    /\ ~FiberHasWork
    /\ IF timers = <<>> THEN now < MaxTime ELSE ~timerDue(Head(timers))
    /\ now' = now + d
    /\ out' = Quiet("env")
    /\ UNCHANGED <<stateVars, raining, bodyVars, timers, histVars, mounted>>

Next ==
    \/ \E px \in PlayerXs, dt \in DtChoices, pa \in BOOLEAN : Tick(px, dt, pa)
    \/ \E b \in Bodies : OnIntersectionEnter(b[1], b[2])
    \/ \E r \in BOOLEAN : SetRaining(r)
    \/ Render
    \/ TimerFire
    \/ \E d \in TimeSteps : Advance(d)

Spec == Init /\ [][Next]_vars

\* The scheduler runs a queued render and a due timer callback, and time
\* passes whenever nothing is left to run at the current instant.
FairSpec == Spec /\ WF_vars(Render) /\ WF_vars(TimerFire)
                 /\ SF_vars(\E d \in TimeSteps : Advance(d))

\* ---- teardown

\* The host unmounts the component.  No cleanup function is registered, so the
\* pending timers stay scheduled.
Unmount ==
    /\ mounted
    /\ mounted' = FALSE
    /\ out' = Quiet("env")
    /\ UNCHANGED <<stateVars, raining, bodyVars, timers, now, histVars>>

TeardownNext == Next \/ Unmount

TeardownSpec == Init /\ [][TeardownNext]_vars

\* ---- motion alone: ticks of an agent that stays Alive, with more player
\* positions, frame durations and clock values than Spec draws

MotionMaxTime == 3000
MotionPlayerXs == {12, 30}
MotionDts == {250, 500, 1000}
MotionTimeSteps == {500}
MotionStartTimes == {0, 1500}

MotionInit ==
    /\ curr = "Idle"
    /\ hp = MAX_HP
    /\ dead = FALSE
    /\ vanishing = FALSE
    /\ hpQ = <<>>
    /\ pendVan = FALSE
    /\ pendDead = FALSE
    /\ pendCurr = NoClip
    /\ raining = TRUE
    /\ bodyEnabled = TRUE
    /\ g = SpawnX
    /\ vanishPos = SpawnX
    /\ lastAttack = 0
    /\ timers = <<>>
    /\ now \in MotionStartTimes
    /\ kills = 0
    /\ onDeadCalls = 0
    /\ scheduled = 0
    /\ hits = 0
    /\ vanishAt = NoTime
    /\ deadAt = NoTime
    /\ captures = 0
    /\ mounted = TRUE
    /\ out = Quiet("env")

MotionTick == \E px \in MotionPlayerXs, dt \in MotionDts, pa \in BOOLEAN : Tick(px, dt, pa)

MotionAdvance ==
    /\ now < MotionMaxTime
    /\ \E d \in MotionTimeSteps : now' = now + d
    /\ out' = Quiet("env")
    /\ UNCHANGED <<stateVars, raining, bodyVars, timers, histVars, mounted>>

MotionNext == MotionTick \/ Render \/ MotionAdvance

MotionSpec == MotionInit /\ [][MotionNext]_vars

\* ---- properties

Lifecycle == IF dead THEN "Removed" ELSE IF vanishing THEN "Vanishing" ELSE "Alive"

\* C1: once the damage applied adds up to MAX_HP or more (hp <= 0 with every
\* update run), addKill has been called exactly once, however many of the
\* hits left hp <= 0 and whether or not they came before the next render.
C1_KillNotifiedOnce ==
    /\ kills <= 1
    /\ (hpQ = <<>> /\ hp <= 0) => kills = 1

\* C2: at most one removal timer is ever scheduled, for any interleaving of
\* lethal hits and 'rain stopped' signals.
C2_OneTimerScheduled == scheduled <= 1

\* C3: onDead is called exactly once for an agent that reached Removed, and
\* never more than once.
C3_OnDeadOnce ==
    /\ onDeadCalls <= 1
    /\ dead => onDeadCalls = 1

\* C4: the lifecycle only moves Alive -> Vanishing -> Removed: vanishing and
\* dead are never reset, and dead is never true while vanishing is false.
C4_LifecycleMonotonic ==
    /\ [](dead => vanishing)
    /\ [][/\ vanishing => vanishing'
          /\ dead => dead'
          /\ Lifecycle = "Alive" => Lifecycle' \in {"Alive", "Vanishing"}
          /\ Lifecycle = "Vanishing" => Lifecycle' \in {"Vanishing", "Removed"}
          /\ Lifecycle = "Removed" => Lifecycle' = "Removed"]_vars

C4_RemovedReached == Lifecycle = "Removed" /\ vanishing /\ hp = MAX_HP

C7_VanishingLeadsToRemoved ==
    /\ [](vanishAt # NoTime /\ onDeadCalls = 0
            => timers # <<>> /\ Head(timers) = vanishAt + VANISH_DURATION)
    /\ (vanishAt # NoTime) ~> (dead /\ onDeadCalls >= 1)

C7_RemovedAfterTicks ==
    /\ dead
    /\ onDeadCalls >= 1
    /\ lastAttack > vanishAt
    /\ vanishAt # NoTime

\* C8: a tick taken while the agent is Vanishing issues no motion command,
\* starts no clip and leaves lastAttack and the current animation unchanged.
C8_VanishingTickNoOp ==
    [][(Lifecycle = "Vanishing" /\ out'.op = "tick")
         => /\ ~out'.move
            /\ ~out'.anim
            /\ lastAttack' = lastAttack
            /\ curr' = curr
            /\ pendCurr' = pendCurr]_vars

\* C9: once dead is committed, a tick returns at once: no motion command, no
\* clip started, no state of the agent changed.
C9_RemovedTickShortCircuits ==
    [][(dead /\ out'.op = "tick")
         => /\ ~out'.move
            /\ ~out'.anim
            /\ UNCHANGED <<stateVars, raining, bodyVars, timers, now, histVars>>]_vars

C9_TickWhileRemoved == dead /\ out.op = "tick"

\* C10: a hit on an agent that is already Vanishing or Removed changes only
\* hp: no addKill, no timer, no new vanishPos, no change of the body.
C10_HitAfterVanishOnlyHp ==
    [][(Lifecycle # "Alive" /\ hits' = hits + 1)
         => /\ kills' = kills
            /\ scheduled' = scheduled
            /\ timers' = timers
            /\ vanishPos' = vanishPos
            /\ bodyEnabled' = bodyEnabled]_vars

\* The clip last applied: the pending setCurr if there is one, else curr.
currentAnimation == IF pendCurr # NoClip THEN pendCurr ELSE curr

\* C11: when raining turns false on an Alive agent with no hit pending, that
\* step sets the vanishing flag, disables the body and schedules the timer,
\* with hp unchanged and no addKill; a change of the signal on an agent that
\* is already Vanishing or Removed changes nothing of the agent.
C11_RainStopVanishes ==
    [][/\ (raining /\ ~raining' /\ Lifecycle = "Alive" /\ hpQ = <<>>)
            => /\ pendVan'
               /\ ~bodyEnabled'
               /\ scheduled' = scheduled + 1
               /\ vanishAt' = now
               /\ vanishPos' = g
               /\ hp' = hp
               /\ hpQ' = <<>>
               /\ kills' = kills
       /\ (raining' # raining /\ Lifecycle # "Alive")
            => /\ ~pendVan'
               /\ vanishing' = vanishing
               /\ UNCHANGED <<bodyEnabled, vanishPos, timers, scheduled,
                              vanishAt, captures, onDeadCalls>>
               /\ hpQ = <<>> => (hp' = hp /\ kills' = kills)]_vars

C11_VanishedByRain ==
    /\ ~raining
    /\ pendVan
    /\ ~bodyEnabled
    /\ scheduled = 1
    /\ kills = 0
    /\ hp = MAX_HP

\* C12: after the component is unmounted no onDead is issued and no state
\* of the agent is written: the pending removal timer is cancelled.
C12_TeardownCancelsTimer ==
    [][~mounted => (onDeadCalls' = onDeadCalls /\ UNCHANGED stateVars)]_vars

\* C13: an intersection whose other body is not tagged "magic" (or has no
\* tag) changes nothing of the agent and notifies nobody; a "magic" one
\* queues one hp update of its damage, or of DEFAULT_DAMAGE when it has none.
C13_OnlyMagicDamages ==
    [][(out'.op = "hit" /\ hits' = hits + 1)
         => IF out'.tag = "magic"
            THEN LET D == IF out'.damage = NoDamage THEN 10 ELSE out'.damage
                     u == hpQ'[Len(hpQ')]
                 IN /\ Len(hpQ') = Len(hpQ) + 1
                    /\ IF u.eager THEN u.val = hp - D ELSE u.val = D
            ELSE UNCHANGED <<stateVars, raining, bodyVars, timers, now, kills,
                             onDeadCalls, scheduled, vanishAt, deadAt,
                             captures>>]_vars

C13_DefaultDamageApplied ==
    /\ out.op = "hit"
    /\ out.tag = "magic"
    /\ out.damage = NoDamage
    /\ Len(hpQ) = 1
    /\ hpQ[1].eager
    /\ hpQ[1].val = 0

\* C14: a tick starts a clip only when the clip it asks for differs from the
\* clip last applied, also when the last setCurr is not committed yet.
C14_PlayIdempotent ==
    [][(out'.op = "tick" /\ out'.anim) => out'.req # currentAnimation]_vars

\* C15: an Alive agent (health bar rendered) has 0 < hp <= MAX_HP; hp <= 0
\* only in Vanishing or Removed.
C15_HealthFractionInRange ==
    /\ Lifecycle = "Alive" => (0 < hp /\ hp <= MAX_HP)
    /\ hp <= 0 => Lifecycle \in {"Vanishing", "Removed"}

C15_AliveAfterHit == Lifecycle = "Alive" /\ hits >= 1 /\ hp = 5 /\ hpQ = <<>>

\* C16: the first in-range tick of a fresh Alive agent (lastAttack = 0)
\* commands the retreat of 0.3 m away from the player and sets lastAttack,
\* whatever the clock reads.
C16_FirstInRangeTickRetreats ==
    [][(out'.op = "tick" /\ out'.branch = "attack"
          /\ Lifecycle = "Alive" /\ lastAttack = 0)
         => /\ out'.move
            /\ out'.target = g + NormX(g - out'.px) * 3
            /\ lastAttack' = now]_vars

\* C17: a retreat happens only more than ATTACK_COOLDOWN after lastAttack and
\* sets lastAttack to the clock; an in-range tick within the cooldown
\* commands nothing, leaves lastAttack alone and still asks for the Attack
\* clip; lastAttack never decreases and no out-of-range tick writes it.
C17_CooldownBoundsRetreats ==
    [][out'.op = "tick"
         => /\ lastAttack' >= lastAttack
            /\ out'.branch # "attack" => lastAttack' = lastAttack
            /\ (out'.branch = "attack" /\ out'.move)
                 => (now - lastAttack > 1000 /\ lastAttack' = now)
            /\ (out'.branch = "attack" /\ now - lastAttack <= 1000)
                 => /\ ~out'.move
                    /\ lastAttack' = lastAttack
                    /\ g' = g
                    /\ out'.req = "Armature|Action_Atack"]_vars

C17_TickAtCooldownEnd ==
    /\ out.op = "tick"
    /\ out.branch = "attack"
    /\ ~out.move
    /\ lastAttack > 0
    /\ now - lastAttack = 1000

\* C18: a tick of an Alive agent farther than ATTACK_RANGE from the player
\* commands current + (unit direction to the player) * WALK_SPEED * dt, asks
\* for the Walk clip and does not retreat; at distance <= ATTACK_RANGE the
\* tick takes the attack branch.
C18_WalkStep ==
    [][(out'.op = "tick" /\ out'.branch # "none")
         => /\ (out'.branch = "walk") <=> (Abs(out'.px - g) > 10)
            /\ out'.branch = "walk"
                 => /\ out'.move
                    /\ Abs(out'.target - g) * 1000 = 4 * out'.dt * 10
                    /\ (out'.target - g) * (out'.px - g) > 0
                    /\ g' = out'.target
                    /\ out'.req = "Armature|Action_Walk"
                    /\ lastAttack' = lastAttack]_vars

C18_WalkedTowardPlayer ==
    /\ out.op = "tick"
    /\ out.branch = "walk"
    /\ out.px = 30
    /\ out.dt = 250
    /\ out.target = 10
    /\ g = 10

\* C19: vanishPos is written once, with the position of the body at that
\* moment, and no later step changes it.
C19_VanishPosWrittenOnce ==
    [][/\ captures' # captures => (captures = 0 /\ vanishPos' = g)
       /\ captures' = captures => vanishPos' = vanishPos]_vars

\* C20: a walk step never leaves the agent farther from the player than it
\* was, whatever the tick duration.
C20_NeverFarther ==
    [][(out'.op = "tick" /\ out'.branch = "walk")
         => Abs(out'.px - out'.target) <= Abs(out'.px - g)]_vars
====
